---- MODULE Spec2Model ----
(***************************************************************************)
(* disco: a pool of writer threads streaming the output of a fast-key-     *)
(* erasure generator into a named pipe (src/src/stream.rs, src/src/rng.rs).*)
(*                                                                         *)
(* The model has one process per worker thread (run_worker), the           *)
(* supervising thread (start_workers, the Ctrl-C handler of run_workers,   *)
(* join_workers) and the reader side of the FIFO as the environment.       *)
(* Byte buffers are scaled down: a "byte" has ByteBits bits, the generator *)
(* buffer has BUFFER_LEN cells of which the first KEY_LEN are the key.     *)
(* ChaCha20 (an external crate) is replaced by a small deterministic       *)
(* keystream function of (key, nonce, position).                           *)
(***************************************************************************)
EXTENDS Integers, Sequences, FiniteSets, TLC

\* ---------------------------------------------------------------- bounds
\* Largest worker count n_workers handed to start_workers.
MaxWorkers == 2
\* Width of a model byte in bits (u8 in the source).
ByteBits == 2
\* rng.rs:10 KEY_LEN = 32 and rng.rs:9 BUFFER_LEN = 1024, scaled down.
KEY_LEN == 1
BUFFER_LEN == 2
\* rng.rs:24 nonce: [u8; 12], scaled down.
NONCE_LEN == 1
\* Number of distinct keys getrandom is taken to return.
NSeeds == 2

ByteMod == 2 ^ ByteBits
Byte == 0 .. (ByteMod - 1)
OUTPUT_LEN == BUFFER_LEN - KEY_LEN
Workers == 0 .. (MaxWorkers - 1)

\* ------------------------------------------------------------- generator
RECURSIVE Xor(_, _)
Xor(a, b) ==
    IF a = 0 THEN b
    ELSE IF b = 0 THEN a
    ELSE (((a % 2) + (b % 2)) % 2) + 2 * Xor(a \div 2, b \div 2)

RECURSIVE BytesToNum(_)
BytesToNum(s) ==
    IF s = <<>> THEN 0
    ELSE s[Len(s)] + ByteMod * BytesToNum(SubSeq(s, 1, Len(s) - 1))

\* Stand-in for the ChaCha20 keystream: byte i (1-based) of the stream
\* selected by (key, nonce).
KeystreamByte(key, nonce, i) ==
    LET K == BytesToNum(key)
        N == BytesToNum(nonce)
    IN  (K * K + (2 * i + 1) * K + i + N) % ByteMod

ZeroBytes(len) == [i \in 1 .. len |-> 0]

\* CryptoRng { buffer, nonce }
key_slice(g) == SubSeq(g.buffer, 1, KEY_LEN)
output_slice(g) == SubSeq(g.buffer, KEY_LEN + 1, BUFFER_LEN)

\* The states from_entropy can return: key region filled by getrandom,
\* output region zero, nonce zero.
SeedKeys == {k \in [1 .. KEY_LEN -> Byte] : BytesToNum(k) < NSeeds}
from_entropy(seed) ==
    [buffer |-> seed \o ZeroBytes(OUTPUT_LEN), nonce |-> ZeroBytes(NONCE_LEN)]

\* CryptoRng::output: the slice regenerate() returns to its caller.
outputFromStart(g) == SubSeq(g.buffer, 1, OUTPUT_LEN)
output(g) == output_slice(g)

\* cipher.apply_keystream(&mut self.buffer) with the cipher keyed by the
\* current key region and the nonce.
regenerateKeepsKey(g) ==
    [g EXCEPT !.buffer =
        [i \in 1 .. BUFFER_LEN |->
            IF i <= KEY_LEN THEN g.buffer[i]
            ELSE Xor(g.buffer[i], KeystreamByte(key_slice(g), g.nonce, i))]]
regenerate(g) ==
    [g EXCEPT !.buffer =
        [i \in 1 .. BUFFER_LEN |->
            Xor(g.buffer[i], KeystreamByte(key_slice(g), g.nonce, i))]]

NoRng == [buffer |-> <<>>, nonce |-> <<>>]

\* ----------------------------------------------------------------- state
VARIABLES
    n_workers,   \* start_workers' argument
    running,     \* Arc<AtomicBool> shared by the pool and every WorkerSpec
    reader,      \* environment: a reader has the FIFO open
    spawned,     \* number of spawn attempts start_workers has made
    handles,     \* per index: "none", "thread" (Ok(JoinHandle)) or "spawn_err"
    pc,          \* per worker: position in run_worker
    rng,         \* per worker: its CryptoRng
    file,        \* per worker: TRUE while it owns an open fs::File
    lastRes,     \* per worker: result class of its last open/write call
    result,      \* per worker: what the thread ended with
    finalRegen,  \* per worker: the regenerate() of stream.rs:90 was executed
    opsAfterStop,\* per worker: channel calls started after running = FALSE
    wire,        \* per worker: the bytes it handed to its last write_all
    joinState,   \* join_workers: "joining", "returned", "unwound"
    joinIdx,     \* join_workers: index of the handle being joined
    errors       \* join_workers: the WorkerError list collected so far

vars ==
    << n_workers, running, reader, spawned, handles, pc, rng, file, lastRes,
       result, finalRegen, opsAfterStop, wire, joinState, joinIdx,
       errors >>

workerVars ==
    << pc, rng, file, lastRes, result, finalRegen, opsAfterStop, wire >>
poolVars == << n_workers, running, spawned, handles >>
joinVars == << joinState, joinIdx, errors >>

\* OS error classes as run_worker tells them apart.
Opened == "Opened"
Written == "Written"
ENXIO == "ENXIO"
BrokenPipe == "BrokenPipe"
WouldBlock == "WouldBlock"
OpenFatal == "EACCES"
WriteFatal == "EIO"
SpawnFatal == "EAGAIN_spawn"

NoResult == [kind |-> "None", cause |-> "-"]
OkResult == [kind |-> "Ok", cause |-> "-"]
IOError(e) == [kind |-> "IOError", cause |-> e]
GetRandomError == [kind |-> "GetRandomError", cause |-> "getrandom"]
Panicked == [kind |-> "Panic", cause |-> "panic"]

\* WorkerError::new(thread_id, error)
WorkerError(i, e) == [thread_id |-> i, error |-> e]

Active == 0 .. (n_workers - 1)

is_running == running

Init ==
    /\ n_workers \in 1 .. MaxWorkers
    /\ running = TRUE
    /\ reader \in BOOLEAN
    /\ spawned = 0
    /\ handles = [w \in Workers |-> "none"]
    /\ pc = [w \in Workers |-> "unspawned"]
    /\ rng = [w \in Workers |-> NoRng]
    /\ file = [w \in Workers |-> FALSE]
    /\ lastRes = [w \in Workers |-> "none"]
    /\ result = [w \in Workers |-> NoResult]
    /\ finalRegen = [w \in Workers |-> FALSE]
    /\ opsAfterStop = [w \in Workers |-> 0]
    /\ wire = [w \in Workers |-> <<>>]
    /\ joinState = "joining"
    /\ joinIdx = 0
    /\ errors = <<>>

\* --------------------------------------------------------- start_workers
\* One iteration of the map over 0..n_workers: thread::Builder::spawn either
\* starts run_worker(spec) or fails with an io::Error.
SpawnWorkerAbort ==
    /\ spawned < n_workers
    /\ \E ok \in BOOLEAN :
          /\ handles' = [handles EXCEPT ![spawned] = IF ok THEN "thread" ELSE "spawn_err"]
          /\ pc' = [pc EXCEPT ![spawned] = IF ok THEN "start" ELSE "unspawned"]
          /\ spawned' = IF ok THEN spawned + 1 ELSE n_workers
          /\ running' = ok
    /\ UNCHANGED << n_workers, reader, rng, file, lastRes, result,
                    finalRegen, opsAfterStop, wire, joinVars >>
SpawnWorker ==
    /\ spawned < n_workers
    /\ \E ok \in BOOLEAN :
          /\ handles' = [handles EXCEPT ![spawned] = IF ok THEN "thread" ELSE "spawn_err"]
          /\ pc' = [pc EXCEPT ![spawned] = IF ok THEN "start" ELSE "unspawned"]
    /\ spawned' = spawned + 1
    /\ UNCHANGED << n_workers, running, reader, rng, file, lastRes, result,
                    finalRegen, opsAfterStop, wire, joinVars >>

StartDone == spawned = n_workers

\* ------------------------------------------------------------ run_worker
\* return from run_worker: the thread ends with res and drops its file.
ExitStopsPool(w, res) ==
    /\ pc' = [v \in Workers |->
                IF v = w \/ (res.kind = "IOError" /\ pc[v] \notin {"unspawned", "done"})
                  THEN "done" ELSE pc[v]]
    /\ result' = [result EXCEPT ![w] = res]
    /\ file' = [file EXCEPT ![w] = FALSE]
Exit(w, res) ==
    /\ pc' = [pc EXCEPT ![w] = "done"]
    /\ result' = [result EXCEPT ![w] = res]
    /\ file' = [file EXCEPT ![w] = FALSE]

CountOp(w) ==
    opsAfterStop' =
        [opsAfterStop EXCEPT ![w] = IF running THEN @ ELSE IF @ < 2 THEN @ + 1 ELSE @]

\* stream.rs:48-53: seed the generator, print the start banner.
WorkerStartUnseeded(w) ==
    /\ pc[w] = "start"
    /\ \/ /\ pc' = [pc EXCEPT ![w] = "outer_check"]
          /\ UNCHANGED << rng, result, file >>
       \/ \E seed \in SeedKeys :
            /\ rng' = [rng EXCEPT ![w] = from_entropy(seed)]
            /\ \/ Exit(w, Panicked)
               \/ /\ pc' = [pc EXCEPT ![w] = "outer_check"]
                  /\ UNCHANGED << result, file >>
    /\ UNCHANGED << poolVars, reader, lastRes, finalRegen, opsAfterStop, wire, joinVars >>
WorkerStart(w) ==
    /\ pc[w] = "start"
    /\ \/ /\ Exit(w, GetRandomError)
          /\ UNCHANGED rng
       \/ \E seed \in SeedKeys :
            /\ rng' = [rng EXCEPT ![w] = from_entropy(seed)]
            /\ \/ Exit(w, Panicked)
               \/ /\ pc' = [pc EXCEPT ![w] = "outer_check"]
                  /\ UNCHANGED << result, file >>
    /\ UNCHANGED << poolVars, reader, lastRes, finalRegen, opsAfterStop, wire, joinVars >>

\* stream.rs:55: while spec.is_running()
OuterCheckReseed(w) ==
    /\ pc[w] = "outer_check"
    /\ pc' = [pc EXCEPT ![w] = IF is_running THEN "open" ELSE "final_regen"]
    /\ \E seed \in SeedKeys : rng' = [rng EXCEPT ![w] = from_entropy(seed)]
    /\ UNCHANGED << poolVars, reader, file, lastRes, result, finalRegen,
                    opsAfterStop, wire, joinVars >>
OuterCheck(w) ==
    /\ pc[w] = "outer_check"
    /\ pc' = [pc EXCEPT ![w] = IF is_running THEN "open" ELSE "final_regen"]
    /\ UNCHANGED << poolVars, reader, rng, file, lastRes, result, finalRegen,
                    opsAfterStop, wire, joinVars >>

\* What open_pipe (stream.rs:39-45) can return: with O_NONBLOCK a write-only
\* open of a FIFO fails with ENXIO exactly when no reader has it open.
OpenResults == IF reader THEN {Opened, OpenFatal} ELSE {ENXIO, OpenFatal}

\* The match of stream.rs:56-67 on the result of open_pipe.
OpenArmNoRetry(r) == IF r = Opened THEN "file" ELSE "return"
OpenArm(r) ==
    CASE r = Opened -> "file"
      [] r = ENXIO -> "sleep"
      [] OTHER -> "return"

\* stream.rs:56-67: open_pipe and the match on its result.
OpenPipe(w) ==
    /\ pc[w] = "open"
    /\ CountOp(w)
    /\ \E r \in OpenResults :
         /\ lastRes' = [lastRes EXCEPT ![w] = r]
         /\ CASE OpenArm(r) = "file" ->
                   /\ file' = [file EXCEPT ![w] = TRUE]
                   /\ pc' = [pc EXCEPT ![w] = "inner_check"]
                   /\ UNCHANGED result
              [] OpenArm(r) = "sleep" ->
                   /\ pc' = [pc EXCEPT ![w] = "sleep"]
                   /\ UNCHANGED << result, file >>
              [] OTHER -> Exit(w, IOError(r))
    /\ UNCHANGED << poolVars, reader, rng, finalRegen, wire, joinVars >>

\* Where `continue` in the outer loop (stream.rs:61) goes: to its condition.
AfterSleepBreak == "final_regen"
AfterSleepNoCheck == "open"
AfterSleep == "outer_check"

\* stream.rs:60-61: thread::sleep(default_sleep_time()); continue
Sleep(w) ==
    /\ pc[w] = "sleep"
    /\ pc' = [pc EXCEPT ![w] = AfterSleep]
    /\ UNCHANGED << poolVars, reader, rng, file, lastRes, result, finalRegen,
                    opsAfterStop, wire, joinVars >>

\* stream.rs:70: while spec.is_running(); leaving the inner loop ends the
\* outer iteration, which drops the file.
InnerCheckKeepsFile(w) ==
    /\ pc[w] = "inner_check"
    /\ pc' = [pc EXCEPT ![w] = IF is_running THEN "write" ELSE "outer_check"]
    /\ UNCHANGED << poolVars, reader, rng, file, lastRes, result, finalRegen,
                    opsAfterStop, wire, joinVars >>
InnerCheck(w) ==
    /\ pc[w] = "inner_check"
    /\ IF is_running
         THEN /\ pc' = [pc EXCEPT ![w] = "write"]
              /\ UNCHANGED file
         ELSE /\ pc' = [pc EXCEPT ![w] = "outer_check"]
              /\ file' = [file EXCEPT ![w] = FALSE]
    /\ UNCHANGED << poolVars, reader, rng, lastRes, result, finalRegen,
                    opsAfterStop, wire, joinVars >>

\* The generator after the argument of write_all (stream.rs:71) has been
\* evaluated, given the result class of the worker's previous channel call.
WriteArgKeepOnRetry(g, last) == IF last = WouldBlock THEN g ELSE regenerate(g)
WriteArg(g, last) == regenerate(g)

\* What write_all can return.  A block is shorter than PIPE_BUF, so the FIFO
\* takes it whole or not at all; without a reader the write fails with EPIPE.
WriteResults ==
    IF reader THEN {Written, WouldBlock, WriteFatal} ELSE {BrokenPipe, WriteFatal}

\* The match of stream.rs:71-84 on the result of write_all.
WriteArmPipeFatal(r) ==
    CASE r = Written -> "next"
      [] r = WouldBlock -> "continue"
      [] OTHER -> "return"
WriteArm(r) ==
    CASE r = Written -> "next"
      [] r = BrokenPipe -> "break"
      [] r = WouldBlock -> "continue"
      [] OTHER -> "return"

\* Where `continue` in the inner loop (stream.rs:78) goes: to its condition.
AfterContinueNoCheck == "write"
AfterContinue == "inner_check"

\* stream.rs:71-84: file.write_all(rng.regenerate()) and the match on its
\* result.
WriteBlock(w) ==
    /\ pc[w] = "write"
    /\ CountOp(w)
    /\ rng' = [rng EXCEPT ![w] = WriteArg(rng[w], lastRes[w])]
    /\ wire' = [wire EXCEPT ![w] = output(WriteArg(rng[w], lastRes[w]))]
    /\ \E r \in WriteResults :
         /\ lastRes' = [lastRes EXCEPT ![w] = r]
         /\ CASE WriteArm(r) = "next" ->
                   /\ pc' = [pc EXCEPT ![w] = "inner_check"]
                   /\ UNCHANGED << result, file >>
              [] WriteArm(r) = "continue" ->
                   /\ pc' = [pc EXCEPT ![w] = AfterContinue]
                   /\ UNCHANGED << result, file >>
              [] WriteArm(r) = "break" ->
                   /\ pc' = [pc EXCEPT ![w] = "outer_check"]
                   /\ file' = [file EXCEPT ![w] = FALSE]
                   /\ UNCHANGED result
              [] OTHER -> Exit(w, IOError(r))
    /\ UNCHANGED << poolVars, reader, finalRegen, joinVars >>

\* A write that hands a whole block to the reader.
WriteDelivered(w) == WriteBlock(w) /\ lastRes'[w] = Written

\* stream.rs:88-92: the last regenerate(), then Ok(()).
FinalRegen(w) ==
    /\ pc[w] = "final_regen"
    /\ rng' = [rng EXCEPT ![w] = regenerate(rng[w])]
    /\ finalRegen' = [finalRegen EXCEPT ![w] = TRUE]
    /\ Exit(w, OkResult)
    /\ UNCHANGED << poolVars, reader, lastRes, opsAfterStop, wire, joinVars >>

WorkerStep(w) ==
    \/ WorkerStart(w)
    \/ OuterCheck(w)
    \/ OpenPipe(w)
    \/ Sleep(w)
    \/ InnerCheck(w)
    \/ WriteBlock(w)
    \/ FinalRegen(w)

\* ----------------------------------------------------------- run_workers
\* stream.rs:98-100 (the Ctrl-C handler) and main.rs:119: store(false).
\* The handler is installed after start_workers has returned.
RequestShutdownToggle ==
    /\ StartDone
    /\ running' = ~running
    /\ UNCHANGED << n_workers, reader, spawned, handles, workerVars, joinVars >>
RequestShutdown ==
    /\ StartDone
    /\ running' = FALSE
    /\ UNCHANGED << n_workers, reader, spawned, handles, workerVars, joinVars >>

\* ---------------------------------------------------------- join_workers
\* collect::<Vec<_>>() of stream.rs:127 keeps the iteration order.
CollectFront(errs, e) == <<e>> \o errs
Collect(errs, e) == Append(errs, e)

\* What the closure of stream.rs:111-126 does with a thread that panicked:
\* panic::resume_unwind(e).
JoinPanicAsError(i) ==
    /\ errors' = Append(errors, WorkerError(i, result[i]))
    /\ joinIdx' = joinIdx + 1
    /\ UNCHANGED joinState
JoinPanic(i) ==
    /\ joinState' = "unwound"
    /\ UNCHANGED << joinIdx, errors >>

\* One iteration of the filter_map of stream.rs:108-127.
JoinOne ==
    /\ StartDone
    /\ joinState = "joining"
    /\ joinIdx < n_workers
    /\ LET i == joinIdx IN
         IF handles[i] = "spawn_err"
           THEN /\ errors' = Collect(errors, WorkerError(i, IOError(SpawnFatal)))
                /\ joinIdx' = joinIdx + 1
                /\ UNCHANGED joinState
           ELSE /\ pc[i] = "done"
                /\ IF result[i].kind = "Panic"
                     THEN JoinPanic(i)
                     ELSE /\ errors' = IF result[i].kind = "Ok"
                                         THEN errors
                                         ELSE Collect(errors, WorkerError(i, result[i]))
                          /\ joinIdx' = joinIdx + 1
                          /\ UNCHANGED joinState
    /\ UNCHANGED << poolVars, reader, workerVars >>

\* stream.rs:129-133
JoinReturnEarly ==
    /\ StartDone
    /\ joinState = "joining"
    /\ joinIdx = n_workers \/ errors # <<>>
    /\ joinState' = "returned"
    /\ UNCHANGED << poolVars, reader, workerVars, joinIdx, errors >>
JoinReturn ==
    /\ StartDone
    /\ joinState = "joining"
    /\ joinIdx = n_workers
    /\ joinState' = "returned"
    /\ UNCHANGED << poolVars, reader, workerVars, joinIdx, errors >>

\* The value join_workers returns.
JoinResult ==
    IF errors = <<>> THEN OkResult ELSE [kind |-> "WorkerErrors", cause |-> errors]

\* ------------------------------------------------------------ environment
ReaderAttach ==
    /\ ~reader
    /\ reader' = TRUE
    /\ UNCHANGED << poolVars, workerVars, joinVars >>

ReaderDetach ==
    /\ reader
    /\ reader' = FALSE
    /\ UNCHANGED << poolVars, workerVars, joinVars >>

Next ==
    \/ SpawnWorker
    \/ \E w \in Workers : WorkerStep(w)
    \/ RequestShutdown
    \/ JoinOne
    \/ JoinReturn
    \/ ReaderAttach
    \/ ReaderDetach

Spec == Init /\ [][Next]_vars

\* Every thread that can take a step eventually does: the spawning loop, each
\* worker thread and the thread inside join_workers are scheduled by the OS.
Fairness ==
    /\ WF_vars(SpawnWorker)
    /\ \A w \in Workers : WF_vars(WorkerStep(w))
    /\ WF_vars(JoinOne)
    /\ WF_vars(JoinReturn)

FairSpec == Spec /\ Fairness

\* A reader that stays attached keeps draining the FIFO, so a worker that
\* keeps attempting the write is not answered would-block for ever.
ReaderFairness == \A w \in Workers : SF_vars(WriteDelivered(w))

ReaderSpec == FairSpec /\ ReaderFairness

\* ================================================================ claims
\* Steps of run_worker as seen from outside.
WriteStep(w) == pc[w] = "write" /\ pc'[w] # "write"
OpenStep(w) == pc[w] = "open" /\ pc'[w] # "open"
Exited(w) == pc[w] = "done"
Failed(w) == result[w].kind \in {"IOError", "GetRandomError"}

C2_FinalRegenOnEveryExit ==
    \A w \in Workers :
        (Exited(w) /\ result[w].kind \in {"Ok", "IOError"}) => finalRegen[w]

\* The workers whose slot of the handle vector ends in a non-panic failure:
\* the thread returned Err, or (C19) its spawn failed.
FailedSet ==
    {w \in Active : handles[w] = "spawn_err" \/ (Exited(w) /\ Failed(w))}

CauseOf(w) ==
    IF handles[w] = "spawn_err" THEN IOError(SpawnFatal) ELSE result[w]

\* C3: when join_workers returns, it returns Ok iff no worker failed, and
\* otherwise the aggregate holds exactly one (index, cause) entry per failed
\* worker, none for any other, in ascending spawn index.
C3_JoinAggregates ==
    joinState = "returned" =>
        /\ (JoinResult = OkResult) <=> (FailedSet = {})
        /\ FailedSet # {} => JoinResult = [kind |-> "WorkerErrors", cause |-> errors]
        /\ {errors[k].thread_id : k \in 1 .. Len(errors)} = FailedSet
        /\ Len(errors) = Cardinality(FailedSet)
        /\ \A k \in 1 .. Len(errors) :
              errors[k] = WorkerError(errors[k].thread_id, CauseOf(errors[k].thread_id))
        /\ \A j, k \in 1 .. Len(errors) :
              j < k => errors[j].thread_id < errors[k].thread_id

\* join_workers returned an aggregate with more than one entry.
C3_Witness == joinState = "returned" /\ Len(errors) >= 2

Recoverable == {ENXIO, BrokenPipe, WouldBlock}

\* C4: a worker's result is an I/O error iff its last open failed with a
\* class other than ENXIO or its last write failed with a class other than
\* broken pipe and would-block.  The three recoverable classes never end the
\* worker and never appear in its result: ENXIO leads to the backoff and
\* then, through the loop condition, to another open; broken pipe leads back
\* to the outer loop with the file dropped; would-block leads back to the
\* inner loop with the file kept.
C4_Classification ==
    /\ [](\A w \in Workers :
            /\ (result[w].kind = "IOError")
                  <=> (lastRes[w] \notin (Recoverable \cup {"none", Opened, Written}))
            /\ result[w].cause \notin Recoverable
            /\ lastRes[w] \in Recoverable => result[w].kind \in {"None", "Ok"})
    /\ [][\A w \in Workers :
            /\ (OpenStep(w) /\ lastRes'[w] = ENXIO)
                  => (pc'[w] = "sleep" /\ ~file'[w] /\ result'[w] = NoResult)
            /\ pc[w] = "sleep" => pc'[w] \in {"sleep", "outer_check"}
            /\ (pc[w] = "outer_check" /\ lastRes[w] \in {ENXIO, BrokenPipe} /\ running)
                  => pc'[w] \in {"outer_check", "open"}
            /\ (WriteStep(w) /\ lastRes'[w] = BrokenPipe)
                  => (pc'[w] = "outer_check" /\ ~file'[w] /\ result'[w] = NoResult)
            /\ (WriteStep(w) /\ lastRes'[w] = WouldBlock)
                  => (pc'[w] = "inner_check" /\ file'[w] /\ result'[w] = NoResult)
            /\ (pc[w] = "inner_check" /\ running) => pc'[w] \in {"inner_check", "write"}
         ]_vars

\* One worker ended with an I/O error from a write, another is about to open
\* again after ENXIO and the backoff.
C4_Witness ==
    \E w, v \in Workers :
        /\ result[w] = IOError(WriteFatal) /\ Exited(w)
        /\ lastRes[v] = ENXIO /\ pc[v] = "open"

AllExited == \A w \in Active : handles[w] = "spawn_err" \/ Exited(w)
AnyPanic == \E w \in Active : result[w].kind = "Panic"

\* C5: once the flag is false every worker eventually exits and join_workers
\* eventually finishes (it returns; if a worker panicked it re-raises that
\* panic, see C10), whatever the channel does: no reader ever, a reader that
\* disconnects, would-block on every write.  A worker that leaves through the
\* shutdown path returns Ok.
C5_ShutdownTerminates ==
    /\ (~running) ~> AllExited
    /\ (~running) ~> (joinState = "returned" \/ (joinState = "unwound" /\ AnyPanic))
    /\ [](\A w \in Workers : finalRegen[w] => (Exited(w) /\ result[w] = OkResult))

\* After shutdown a worker whose last write was answered would-block has
\* exited with Ok and join_workers has returned.
C5_Witness ==
    /\ ~running
    /\ AllExited
    /\ joinState = "returned"
    /\ \E w \in Active :
          lastRes[w] = WouldBlock /\ opsAfterStop[w] = 1 /\ result[w] = OkResult

\* C6: once the flag is false a worker starts at most one more channel call
\* (an open, followed by at most one backoff sleep, or a write): each loop
\* condition it reaches afterwards sends it towards the final regenerate,
\* never to a second open or write.
C6_OneMoreOperation ==
    /\ [](\A w \in Workers : opsAfterStop[w] <= 1)
    /\ [][\A w \in Workers :
            /\ (~running /\ pc[w] \in {"outer_check", "inner_check", "sleep"})
                  => pc'[w] \notin {"open", "write"}
            /\ (~running /\ pc[w] = "outer_check")
                  => pc'[w] \in {"outer_check", "final_regen"}]_vars

\* A worker made one channel call after the flag was cleared, then left
\* through the final regenerate.
C6_Witness ==
    \E w \in Workers : opsAfterStop[w] = 1 /\ Exited(w) /\ finalRegen[w]

FatalStep(w) == result[w] = NoResult /\ result'[w].kind = "IOError"
Working(w) == pc[w] \notin {"unspawned", "done"}

\* C7: the step in which a worker ends with a fatal error changes neither
\* the flag nor anything of another worker; the other workers can go on; and
\* the failure shows up as that worker's entry once join_workers returns.
C7_FatalIsLocal ==
    /\ [][\A w \in Workers :
            FatalStep(w) =>
                /\ running' = running
                /\ \A v \in Workers \ {w} :
                      /\ pc'[v] = pc[v]
                      /\ rng'[v] = rng[v]
                      /\ file'[v] = file[v]
                      /\ lastRes'[v] = lastRes[v]
                      /\ result'[v] = result[v]]_vars
    /\ [](\A w, v \in Workers :
            (result[w].kind = "IOError" /\ Working(v)) => ENABLED WorkerStep(v))
    /\ [](\A w \in Workers :
            (joinState = "returned" /\ result[w].kind = "IOError")
                => \E k \in 1 .. Len(errors) : errors[k] = WorkerError(w, result[w]))

\* One worker has ended with an I/O error while the flag is still set and
\* another worker has just delivered a block.
C7_Witness ==
    \E w, v \in Workers :
        /\ w # v
        /\ result[w].kind = "IOError"
        /\ running
        /\ pc[v] = "inner_check" /\ lastRes[v] = Written /\ file[v]

NoFatal(w) == result[w].kind \notin {"IOError", "GetRandomError", "Panic"}

C9_FlagDiscipline ==
    /\ [](~StartDone => running)
    /\ [][~running => ~running']_vars
    /\ [][(~running /\ RequestShutdown) => UNCHANGED vars]_vars
    /\ [][\A w \in Workers : WorkerStep(w) => running' = running]_vars

\* The flag has been cleared and a worker has observed it and left.
C9_Witness ==
    ~running /\ \E w \in Workers : Exited(w) /\ finalRegen[w]

\* C10: a panicked worker never gets an entry in the error list;
\* join_workers does not return a value when a worker has panicked, it
\* unwinds at that worker's handle instead.
C10_PanicReraised ==
    /\ \A k \in 1 .. Len(errors) : result[errors[k].thread_id].kind # "Panic"
    /\ joinState = "returned" => ~AnyPanic
    /\ joinState = "unwound" => (joinIdx \in Active /\ result[joinIdx].kind = "Panic")
    /\ (AllExited /\ AnyPanic /\ joinIdx = n_workers) => joinState = "unwound"

\* join_workers re-raised the panic of the second worker after it had
\* collected the failure of the first.
C10_Witness ==
    joinState = "unwound" /\ joinIdx = 1 /\ Len(errors) = 1

\* C11: start fails, instead of returning a pool handle, when the spawn of
\* any of the n workers fails: whenever start_workers has returned its pair
\* (flag, handles), every one of the n slots holds the handle of a started
\* thread, and the flag it returns is running until a shutdown is requested.
C11_StartFailsOnSpawnError ==
    StartDone => \A w \in Active : handles[w] = "thread"

Seeded(w) == rng[w] # NoRng
Streaming(w) ==
    \/ pc[w] \in {"outer_check", "open", "sleep", "inner_check", "write", "final_regen"}
    \/ lastRes[w] # "none"
    \/ wire[w] # <<>>
    \/ file[w]

\* C15: a worker whose seeding failed has ended with the entropy error
\* without having opened the channel or written a byte, and join_workers
\* reports that error under the worker's index; every worker that is in the
\* streaming loop, or has ever opened or written, holds a generator that
\* from_entropy seeded successfully.
C15_EntropyFailure ==
    \A w \in Workers :
        /\ (Exited(w) /\ ~Seeded(w)) <=> result[w] = GetRandomError
        /\ result[w] = GetRandomError =>
              /\ lastRes[w] = "none" /\ wire[w] = <<>> /\ ~file[w]
              /\ opsAfterStop[w] = 0 /\ ~finalRegen[w]
              /\ joinState = "returned" =>
                    \E k \in 1 .. Len(errors) :
                        errors[k] = WorkerError(w, GetRandomError)
        /\ Streaming(w) =>
              /\ Seeded(w)
              /\ Len(rng[w].buffer) = BUFFER_LEN
              /\ result[w] # GetRandomError

\* join_workers has returned the entropy failure of the second worker while
\* the first worker, seeded, did stream.
C15_Witness ==
    /\ joinState = "returned"
    /\ n_workers = 2
    /\ result[1] = GetRandomError
    /\ errors = << WorkerError(1, GetRandomError) >>
    /\ wire[0] # <<>>

WorkerState(w) ==
    << pc[w], rng[w], file[w], lastRes[w], result[w], finalRegen[w],
       opsAfterStop[w], wire[w] >>

\* C16: the write that meets a broken pipe drops the file and puts the
\* worker back at the outer loop condition, from where it goes to the next
\* open, or to the final regenerate if shutdown was requested; the worker
\* does not end.  Its generator is the one it had: that write made the one
\* regenerate() call of every write, and until the next write no step
\* replaces or re-seeds it.  Neither that write nor the reader's disconnect
\* changes the flag or anything of another worker.
C16_DisconnectKeepsGenerator ==
    /\ [][\A w \in Workers :
            (WriteStep(w) /\ lastRes'[w] = BrokenPipe) =>
                /\ pc'[w] = "outer_check"
                /\ ~file'[w]
                /\ result'[w] = NoResult
                /\ rng'[w] = regenerate(rng[w])
                /\ running' = running
                /\ \A v \in Workers \ {w} : WorkerState(v)' = WorkerState(v)]_vars
    /\ [][\A w \in Workers :
            (lastRes[w] = BrokenPipe /\ pc[w] = "outer_check" /\ pc'[w] # pc[w]) =>
                /\ pc'[w] = IF running THEN "open" ELSE "final_regen"
                /\ rng'[w] = rng[w]]_vars
    /\ [][\A w \in Workers :
            (Seeded(w) /\ pc[w] \notin {"write", "final_regen"}) =>
                rng'[w] = rng[w]]_vars
    /\ [][(reader /\ ~reader') => UNCHANGED << poolVars, workerVars, joinVars >>]_vars

\* After a broken pipe a worker is back at the open with its generator,
\* while another worker has delivered a block.
C16_Witness ==
    \E w, v \in Workers :
        /\ w # v
        /\ pc[w] = "open" /\ lastRes[w] = BrokenPipe /\ Seeded(w) /\ running
        /\ lastRes[v] = Written

RegenStep(w) == pc[w] \in {"write", "final_regen"} /\ pc'[w] # pc[w]

\* C17: every regenerate() call (one per write, one before a clean exit)
\* XORs the keystream selected by the current key region and the nonce over
\* the whole buffer in place: byte i of the buffer after the call is byte i
\* before it XOR keystream byte i, for the key region (which is thereby the
\* next key) as for the output region (which is the block returned).  The
\* call leaves the nonce alone, and every generator a worker holds has the
\* all-zero nonce and a buffer of BUFFER_LEN bytes.
C17_RegenerateInPlace ==
    /\ [](\A w \in Workers :
            Seeded(w) =>
                /\ rng[w].nonce = ZeroBytes(NONCE_LEN)
                /\ Len(rng[w].buffer) = BUFFER_LEN)
    /\ [][\A w \in Workers :
            RegenStep(w) =>
                LET old == rng[w].buffer
                    new == rng'[w].buffer
                    key == SubSeq(old, 1, KEY_LEN)
                    ks(i) == KeystreamByte(key, rng[w].nonce, i)
                IN  /\ \A i \in 1 .. BUFFER_LEN : new[i] = Xor(old[i], ks(i))
                    /\ key_slice(rng'[w]) = [i \in 1 .. KEY_LEN |-> Xor(old[i], ks(i))]
                    /\ output_slice(rng'[w]) =
                          [i \in 1 .. OUTPUT_LEN |->
                              Xor(old[KEY_LEN + i], ks(KEY_LEN + i))]
                    /\ rng'[w].nonce = rng[w].nonce]_vars

\* A generator has been regenerated more than once: its final regenerate
\* followed a delivered block, and key and output region are both non-zero.
C17_Witness ==
    \E w \in Workers :
        /\ finalRegen[w]
        /\ lastRes[w] = Written
        /\ key_slice(rng[w]) # ZeroBytes(KEY_LEN)
        /\ output_slice(rng[w]) # ZeroBytes(OUTPUT_LEN)
        /\ output_slice(rng[w]) # wire[w]

\* C18: when join_workers has returned a value, every worker thread has
\* exited (a slot whose spawn failed never had a thread).  It takes the
\* handles one at a time in ascending spawn index, passing a handle only
\* once its thread has exited, and a failure already collected does not make
\* it return before the last handle.
C18_JoinWaitsForAll ==
    /\ [](joinState = "returned" => (AllExited /\ joinIdx = n_workers))
    /\ [](\A w \in Active : w < joinIdx => (handles[w] = "spawn_err" \/ Exited(w)))
    /\ [][joinIdx' \in {joinIdx, joinIdx + 1}]_vars
    /\ [][(joinState = "joining" /\ joinState' = "returned") =>
            (joinIdx = n_workers /\ \A w \in Active : pc'[w] \in {"unspawned", "done"})]_vars

\* join_workers has returned the failure of the first worker only after the
\* second worker, which streamed and left through the shutdown path, exited.
C18_Witness ==
    /\ joinState = "returned"
    /\ n_workers = 2
    /\ Len(errors) = 1 /\ errors[1].thread_id = 0
    /\ result[1] = OkResult /\ finalRegen[1] /\ wire[1] # <<>>

SpawnFails == spawned' # spawned /\ handles'[spawned] = "spawn_err"

C20_HandleLifetime ==
    /\ [](\A w \in Workers : file[w] <=> pc[w] \in {"inner_check", "write"})
    /\ [][\A w \in Workers :
            (~file[w] /\ file'[w]) => (OpenStep(w) /\ lastRes'[w] = Opened)]_vars
    /\ [][\A w \in Workers :
            OpenStep(w) => (~file[w] /\ (file'[w] <=> lastRes'[w] = Opened))]_vars
    /\ [][\A w \in Workers :
            (file[w] /\ ~file'[w]) =>
                \/ WriteStep(w) /\ lastRes'[w] \in {BrokenPipe, WriteFatal}
                \/ pc[w] = "inner_check" /\ ~running /\ pc'[w] = "outer_check"]_vars

\* One worker holds its handle at a write while another, which had opened
\* the channel too, has exited on a fatal write and holds none.
C20_Witness ==
    \E w, v \in Workers :
        /\ pc[w] = "write" /\ file[w]
        /\ Exited(v) /\ lastRes[v] = WriteFatal /\ ~file[v]

====
